---- MODULE Spec2Model ----
(***************************************************************************)
(* A model of altair_widgets/widget.py: the Interact form (one shelf per   *)
(* encoding dimension plus a mark row), the settings dictionary its        *)
(* callbacks mutate, and the compilation of the settings into the chart    *)
(* call  Chart(df).<mark>(mark options).encode(encoding arguments).       *)
(*                                                                         *)
(* Python values are written as strings: a str is itself, and None, True   *)
(* and False are the three reserved strings below.  A dict is a function   *)
(* whose DOMAIN is its key set; a list is a sequence (Python index i is    *)
(* TLA+ index i + 1).                                                      *)
(***************************************************************************)
EXTENDS Integers, Sequences, FiniteSets, TLC

VARIABLES
    args,        \* the constructor call: [df_ok, ndims, show]
    pc,          \* "new" (not yet constructed), "live", "failed" (__init__ raised)
    settings,    \* self.settings
    controller,  \* self.controller: the rows of the widget tree
    show,        \* self.show
    chart,       \* self.chart
    calls,       \* display-surface calls made by the last step, in order
    err,         \* exception raised by the last step, or "none"
    last,        \* the last step taken (history)
    nevents,     \* number of callbacks run since construction
    arg,         \* argument of the last direct _get_plot_command call
    ret          \* its result

vars == <<args, pc, settings, controller, show, chart, calls, err, last,
          nevents, arg, ret>>

-----------------------------------------------------------------------------
(* Bounds of the exploration *)

\* largest ndims explored together with events
MaxDims == 2
\* longest sequence of callbacks explored after construction
MaxEvents == 4
\* largest ndims explored for construction alone
MaxCtorDims == 11
\* longest sequence of catalog lookups explored
MaxCalls == 2

-----------------------------------------------------------------------------
(* Python values *)

None == "<None>"
PyTrue == "<True>"
PyFalse == "<False>"
\* an attribute that has not been assigned
Undefined == [cls |-> "undefined"]
\* the object None where the other values at that place are records
NoneObj == [cls |-> "NoneType"]

IsStr(v) == v \notin {None, PyTrue, PyFalse}

\* 'auto' in value, for a str value: among the values in play only the
\* type control's first option contains the substring
StrHasAuto(v) == v = "auto detect"

\* d[k] = v
DictSet(d, k, v) == [x \in DOMAIN d \cup {k} |-> IF x = k THEN v ELSE d[x]]
\* d.pop(k, None), and d.pop(k) when k is present
DictPop(d, k) == [x \in DOMAIN d \ {k} |-> d[x]]

EmptyDict == [x \in {} |-> None]

\* str.capitalize() on the encoding names
capitalize(s) ==
    CASE s = "x" -> "X"
      [] s = "y" -> "Y"
      [] s = "color" -> "Color"
      [] s = "text" -> "Text"
      [] s = "row" -> "Row"
      [] s = "column" -> "Column"
      [] s = "opacity" -> "Opacity"
      [] s = "shape" -> "Shape"
      [] s = "size" -> "Size"

-----------------------------------------------------------------------------
(* Catalogs *)

\* the DataFrame's columns (the input table has one column, W)
DfColumns == <<"W">>

_get_columns == DfColumns \o <<"*">>

_get_types == <<"quantitative", "ordinal", "nominal", "temporal">>

_get_encodings ==
    <<"x", "y", "color", "text", "row", "column", "opacity", "shape", "size">>

_get_functions ==
    <<"mean", "min", "max", "median", "average", "sum", "count", "distinct",
      "variance", "stdev", "q1", "q3", "argmin", "argmax">>

_get_marks ==
    LET f == <<"point", "circle", "line", "bar", "tick", "text", "square",
               "rule", "area">>
    IN  [i \in DOMAIN f |-> "mark_" \o f[i]]

_get_mark_params == <<"color", "applyColorToBackground", "shortTimeLabels">>

Range(s) == {s[i] : i \in DOMAIN s}

\* a.update(b)
DictUpdate(a, b) ==
    [k \in DOMAIN a \cup DOMAIN b |-> IF k \in DOMAIN b THEN b[k] ELSE a[k]]

\* _get_advanced_settings with one list object shared by all encodings, so
\* that each += extends the list of every encoding
_get_advanced_settings_shared(e) ==
    LET shared == <<"type", "bin", "aggregate">> \o <<"zero", "scale">>
                     \o <<"zero", "scale">> \o <<"text">>
        adv3 == [n \in Range(_get_encodings) |-> shared]
        mark_settings == [m \in Range(_get_marks) |-> _get_mark_params]
        adv_settings == DictUpdate(adv3, mark_settings)
    IN  adv_settings[e]

_get_advanced_settings(e) ==
    LET adv0 == [n \in Range(_get_encodings) |-> <<"type", "bin", "aggregate">>]
        adv1 == [adv0 EXCEPT !["x"] = @ \o <<"zero", "scale">>]
        adv2 == [adv1 EXCEPT !["y"] = @ \o <<"zero", "scale">>]
        adv3 == [adv2 EXCEPT !["text"] = @ \o <<"text">>]
        mark_settings == [m \in Range(_get_marks) |-> _get_mark_params]
        adv_settings == DictUpdate(adv3, mark_settings)
    IN  adv_settings[e]

\* the options of the control _controllers_for builds for a title (the
\* Text control of 'text' takes any string and has no options)
ControlOptions(opt) ==
    CASE opt = "type" -> <<"auto detect">> \o _get_types
      [] opt = "aggregate" -> <<None>> \o _get_functions
      [] opt = "scale" -> <<"linear", "log">>
      [] opt = "color" -> <<None, "blue", "red", "green", "black">>
      [] opt \in {"bin", "zero", "applyColorToBackground", "shortTimeLabels"}
            -> <<PyFalse, PyTrue>>

\* _controllers_for with the aggregate control preset to a function
_controllers_for_preset(opt) ==
    [title |-> opt,
     value |-> IF opt = "text" THEN ""
               ELSE IF opt = "aggregate" THEN _get_functions[1]
               ELSE ControlOptions(opt)[1]]

\* a fresh control for an advanced option: a Dropdown starts at its first
\* option, a Checkbox at False, a Text at ''
_controllers_for(opt) ==
    [title |-> opt,
     value |-> IF opt = "text" THEN "" ELSE ControlOptions(opt)[1]]

-----------------------------------------------------------------------------
(* The chart compiler *)

\* _get_plot_command with zero left among the options instead of being
\* moved into the scale descriptor
_get_plot_command_zero_kept(e) ==
    IF "column" \notin DOMAIN e THEN NoneObj
    ELSE LET d0 == DictPop(DictPop(e, "encoding"), "column")
             bundled == \E key \in {"scale", "zero"} : key \in DOMAIN d0
             sc == IF bundled
                   THEN [cls |-> "Scale",
                         type |-> IF "scale" \in DOMAIN d0 THEN d0["scale"] ELSE None,
                         zero |-> IF "zero" \in DOMAIN d0 THEN d0["zero"] ELSE None]
                   ELSE NoneObj
             d == IF bundled THEN DictPop(d0, "scale") ELSE d0
         IN  [cls |-> capitalize(e["encoding"]), field |-> e["column"],
              scale |-> sc, opts |-> d]

\* _get_plot_command(e): None for an entry without a column, otherwise the
\* field constructor call  altair.<Encoding>(column, scale=Scale(...), **d)
_get_plot_command(e) ==
    IF "column" \notin DOMAIN e THEN NoneObj
    ELSE LET d0 == DictPop(DictPop(e, "encoding"), "column")
             bundled == \E key \in {"scale", "zero"} : key \in DOMAIN d0
             sc == IF bundled
                   THEN [cls |-> "Scale",
                         type |-> IF "scale" \in DOMAIN d0 THEN d0["scale"] ELSE None,
                         zero |-> IF "zero" \in DOMAIN d0 THEN d0["zero"] ELSE None]
                   ELSE NoneObj
             d == IF bundled THEN DictPop(DictPop(d0, "scale"), "zero") ELSE d0
         IN  [cls |-> capitalize(e["encoding"]), field |-> e["column"],
              scale |-> sc, opts |-> d]

\* the keyword arguments of encode: a dict comprehension over the entries in
\* order, so the last entry of each encoding name is the one kept
EncodeKwargs(encodings) ==
    LET names == {encodings[i]["encoding"] : i \in DOMAIN encodings}
        lastOf(n) == CHOOSE i \in DOMAIN encodings :
                        /\ encodings[i]["encoding"] = n
                        /\ \A j \in DOMAIN encodings :
                              encodings[j]["encoding"] = n => j <= i
    IN  [n \in names |-> _get_plot_command(encodings[lastOf(n)])]

\* plot displaying whenever its show argument is set, whatever self.show is
plot_always(st, showArg, selfShow) ==
    [chart |-> [mark |-> st.mark["mark"],
                mark_opts |-> DictPop(st.mark, "mark"),
                kwargs |-> EncodeKwargs(st.encodings)],
     calls |-> IF showArg THEN <<"clear_output", "display_chart">>
               ELSE <<>>]

\* Interact.plot: the chart that is stored, and the display calls made
plot(st, showArg, selfShow) ==
    [chart |-> [mark |-> st.mark["mark"],
                mark_opts |-> DictPop(st.mark, "mark"),
                kwargs |-> EncodeKwargs(st.encodings)],
     calls |-> IF showArg /\ selfShow THEN <<"clear_output", "display_chart">>
               ELSE <<>>]

-----------------------------------------------------------------------------
(* The settings synchronizer *)

\* update writing every encoding row's event into the first entry
update_first_row(st, index, title, value, new) ==
    IF index = -1
    THEN [settings |-> [st EXCEPT !.mark = DictSet(@, title, new)], err |-> "none"]
    ELSE IF title = "type" /\ ~IsStr(value)
    THEN [settings |-> st, err |-> "TypeError"]
    ELSE
      LET e0 == st.encodings[1]
          e1 == IF title = "type" /\ StrHasAuto(value) THEN DictPop(e0, "type") ELSE e0
          put(e) == [st EXCEPT !.encodings[1] = e]
      IN  IF title = "text"
          THEN IF value = ""
               THEN [settings |-> put(DictPop(e1, "text")), err |-> "none"]
               ELSE [settings |-> put(DictSet(e1, "column", value)), err |-> "none"]
          ELSE IF new = None
               THEN IF title \in DOMAIN e1
                    THEN [settings |-> put(DictPop(e1, title)), err |-> "none"]
                    ELSE [settings |-> put(e1), err |-> "KeyError"]
               ELSE [settings |-> put(DictSet(e1, title, new)), err |-> "none"]

\* the mutation part of Interact.update (lines 120-137): the settings after
\* it and the exception it raised, if any
update(st, index, title, value, new) ==
    IF index = -1
    THEN [settings |-> [st EXCEPT !.mark = DictSet(@, title, new)], err |-> "none"]
    ELSE IF title = "type" /\ ~IsStr(value)
    THEN [settings |-> st, err |-> "TypeError"]
    ELSE
      LET e0 == st.encodings[index + 1]
          e1 == IF title = "type" /\ StrHasAuto(value) THEN DictPop(e0, "type") ELSE e0
          put(e) == [st EXCEPT !.encodings[index + 1] = e]
      IN  IF title = "text"
          THEN IF value = ""
               THEN [settings |-> put(DictPop(e1, "text")), err |-> "none"]
               ELSE [settings |-> put(DictSet(e1, "column", value)), err |-> "none"]
          ELSE IF new = None
               THEN IF title \in DOMAIN e1
                    THEN [settings |-> put(DictPop(e1, title)), err |-> "none"]
                    ELSE [settings |-> put(e1), err |-> "KeyError"]
               ELSE [settings |-> put(DictSet(e1, title, new)), err |-> "none"]

-----------------------------------------------------------------------------
(* The controller tree.  A widget is a record of the attributes the code   *)
(* reads or writes; a container has children.                              *)

\* seq[i] for a Python index i (negative indices count from the end)
PyPos(seq, i) == IF i < 0 THEN Len(seq) + i + 1 ELSE i + 1

\* 'mark' in button.title, for the two button titles
TitleHasMark(title) == title = "mark_button"

\* _create_shelf leaving the encoding selector at its first option
_create_shelf_first(columns, i) ==
    LET encodings == _get_encodings
        cols == [title |-> "column", row |-> i, value |-> columns[1]]
        encoding == [title |-> "encoding", row |-> i,
                     value |-> encodings[1], disabled |-> FALSE]
        adv == [title |-> "advanced", row |-> i, visible |-> FALSE,
                children |-> <<>>]
        button == [title |-> "button", row |-> i]
    IN  [children |-> <<cols, encoding, button, adv>>]

\* Interact._create_shelf(columns, i); i < len(_get_encodings()) is required
\* by encodings[i] and checked by the caller below
_create_shelf(columns, i) ==
    LET encodings == _get_encodings
        cols == [title |-> "column", row |-> i, value |-> columns[1]]
        encoding == [title |-> "encoding", row |-> i,
                     value |-> encodings[i + 1], disabled |-> FALSE]
        adv == [title |-> "advanced", row |-> i, visible |-> FALSE,
                children |-> <<>>]
        button == [title |-> "button", row |-> i]
    IN  [children |-> <<cols, encoding, button, adv>>]

\* _generate_controller building one shelf too few
_generate_controller_short(columns, ndims) ==
    LET marks == _get_marks
        mark_choose == [title |-> "mark", row |-> -1, value |-> marks[1],
                        disabled |-> FALSE]
        mark_but == [title |-> "mark_button", row |-> -1]
        mark_opt == [title |-> "mark_options", visible |-> FALSE,
                     children |-> <<>>]
        dims == [k \in 1..(ndims - 1) |-> _create_shelf(columns, k - 1)]
        choices == dims \o <<[children |-> <<mark_choose, mark_but, mark_opt>>]>>
    IN  [children |-> choices]

\* Interact._generate_controller(columns, ndims)
_generate_controller(columns, ndims) ==
    LET marks == _get_marks
        mark_choose == [title |-> "mark", row |-> -1, value |-> marks[1],
                        disabled |-> FALSE]
        mark_but == [title |-> "mark_button", row |-> -1]
        mark_opt == [title |-> "mark_options", visible |-> FALSE,
                     children |-> <<>>]
        dims == [k \in 1..ndims |-> _create_shelf(columns, k - 1)]
        choices == dims \o <<[children |-> <<mark_choose, mark_but, mark_opt>>]>>
    IN  [children |-> choices]

\* _show_advanced disabling the selector whatever the panel's state
_show_advanced_stuck(ctrl, button) ==
    LET disable == IF TitleHasMark(button.title) THEN 0 ELSE 1
        row == button.row
        r == PyPos(ctrl.children, row)
        sel == disable + 1
        pan == Len(ctrl.children[r].children)
        encoding == ctrl.children[r].children[sel].value
        adv == _get_advanced_settings(encoding)
        controllers == [k \in DOMAIN adv |->
                          [title |-> _controllers_for(adv[k]).title,
                           value |-> _controllers_for(adv[k]).value,
                           row |-> row]]
        visible == ctrl.children[r].children[pan].visible
    IN  [ctrl EXCEPT !.children[r].children[sel].disabled = TRUE,
                     !.children[r].children[pan].visible = ~visible,
                     !.children[r].children[pan].children = controllers]

\* _show_advanced putting the primary selector back to its first option
_show_advanced_resets(ctrl, button) ==
    LET disable == IF TitleHasMark(button.title) THEN 0 ELSE 1
        row == button.row
        r == PyPos(ctrl.children, row)
        sel == disable + 1
        pan == Len(ctrl.children[r].children)
        encoding == ctrl.children[r].children[sel].value
        adv == _get_advanced_settings(encoding)
        controllers == [k \in DOMAIN adv |->
                          [title |-> _controllers_for(adv[k]).title,
                           value |-> _controllers_for(adv[k]).value,
                           row |-> row]]
        visible == ctrl.children[r].children[pan].visible
    IN  [ctrl EXCEPT !.children[r].children[sel].disabled = ~visible,
                     !.children[r].children[sel].value =
                         IF disable = 0 THEN _get_marks[1] ELSE _get_encodings[1],
                     !.children[r].children[pan].visible = ~visible,
                     !.children[r].children[pan].children = controllers]

\* _show_advanced leaving the primary selector's disabled flag alone
_show_advanced_no_disable(ctrl, button) ==
    LET disable == IF TitleHasMark(button.title) THEN 0 ELSE 1
        row == button.row
        r == PyPos(ctrl.children, row)
        sel == disable + 1
        pan == Len(ctrl.children[r].children)
        encoding == ctrl.children[r].children[sel].value
        adv == _get_advanced_settings(encoding)
        controllers == [k \in DOMAIN adv |->
                          [title |-> _controllers_for(adv[k]).title,
                           value |-> _controllers_for(adv[k]).value,
                           row |-> row]]
        visible == ctrl.children[r].children[pan].visible
    IN  [ctrl EXCEPT !.children[r].children[sel].disabled = @,
                     !.children[r].children[pan].visible = ~visible,
                     !.children[r].children[pan].children = controllers]

\* _show_advanced reading a shelf's initial encoding instead of the one
\* selected now
_show_advanced_initial(ctrl, button) ==
    LET disable == IF TitleHasMark(button.title) THEN 0 ELSE 1
        row == button.row
        r == PyPos(ctrl.children, row)
        sel == disable + 1
        pan == Len(ctrl.children[r].children)
        encoding == IF disable = 1 THEN _get_encodings[row + 1]
                    ELSE ctrl.children[r].children[sel].value
        adv == _get_advanced_settings(encoding)
        controllers == [k \in DOMAIN adv |->
                          [title |-> _controllers_for(adv[k]).title,
                           value |-> _controllers_for(adv[k]).value,
                           row |-> row]]
        visible == ctrl.children[r].children[pan].visible
    IN  [ctrl EXCEPT !.children[r].children[sel].disabled = ~visible,
                     !.children[r].children[pan].visible = ~visible,
                     !.children[r].children[pan].children = controllers]

\* Interact._show_advanced(button): the controller after the click
_show_advanced(ctrl, button) ==
    LET disable == IF TitleHasMark(button.title) THEN 0 ELSE 1
        row == button.row
        r == PyPos(ctrl.children, row)
        sel == disable + 1
        pan == Len(ctrl.children[r].children)
        encoding == ctrl.children[r].children[sel].value
        adv == _get_advanced_settings(encoding)
        controllers == [k \in DOMAIN adv |->
                          [title |-> _controllers_for(adv[k]).title,
                           value |-> _controllers_for(adv[k]).value,
                           row |-> row]]
        visible == ctrl.children[r].children[pan].visible
    IN  [ctrl EXCEPT !.children[r].children[sel].disabled = ~visible,
                     !.children[r].children[pan].visible = ~visible,
                     !.children[r].children[pan].children = controllers]

\* __init__ checking the dataset only after self.settings is assigned
Interact__init__late(df_ok, ndims, showArg) ==
    LET columns == <<None>> \o _get_columns
        all == _get_encodings
        n == IF ndims < Len(all) THEN ndims ELSE Len(all)
        encodings == [k \in 1..n |-> [x \in {"encoding"} |-> all[k]]]
        st == [mark |-> [x \in {"mark"} |-> "mark_point"],
               encodings |-> encodings]
    IN  IF ~df_ok
        THEN [pc |-> "failed", err |-> "ValueError", settings |-> st,
              controller |-> Undefined, show |-> Undefined,
              chart |-> Undefined, calls |-> <<>>, renders |-> 0]
        ELSE IF ndims > Len(all)
        THEN [pc |-> "failed", err |-> "IndexError", settings |-> st,
              controller |-> Undefined, show |-> Undefined,
              chart |-> Undefined, calls |-> <<>>, renders |-> 0]
        ELSE LET p == plot(st, showArg, showArg)
             IN  [pc |-> "live", err |-> "none", settings |-> st,
                  controller |-> _generate_controller(columns, ndims),
                  show |-> showArg, chart |-> p.chart,
                  calls |-> (IF showArg THEN <<"display_controller">> ELSE <<>>)
                            \o p.calls,
                    renders |-> 1]

\* Interact.__init__(df, ndims, show): the attributes assigned, the display
\* calls made and the exception raised, if any
Interact__init__(df_ok, ndims, showArg) ==
    IF ~df_ok
    THEN [pc |-> "failed", err |-> "ValueError", settings |-> Undefined,
          controller |-> Undefined, show |-> Undefined, chart |-> Undefined,
          calls |-> <<>>, renders |-> 0]
    ELSE
      LET columns == <<None>> \o _get_columns
          all == _get_encodings
          n == IF ndims < Len(all) THEN ndims ELSE Len(all)
          encodings == [k \in 1..n |-> [x \in {"encoding"} |-> all[k]]]
          st == [mark |-> [x \in {"mark"} |-> "mark_point"],
                 encodings |-> encodings]
      IN  IF ndims > Len(all)
          THEN \* _create_shelf raises at encodings[i] for i = len(encodings)
               [pc |-> "failed", err |-> "IndexError", settings |-> st,
                controller |-> Undefined, show |-> Undefined,
                chart |-> Undefined, calls |-> <<>>, renders |-> 0]
          ELSE LET p == plot(st, showArg, showArg)
               IN  [pc |-> "live", err |-> "none", settings |-> st,
                    controller |-> _generate_controller(columns, ndims),
                    show |-> showArg, chart |-> p.chart,
                    calls |-> (IF showArg THEN <<"display_controller">> ELSE <<>>)
                              \o p.calls,
                    renders |-> 1]

\* Interact.update re-rendering the settings as they were before the
\* mutation
Interact_update_stale(st, ch, selfShow, index, title, value, new) ==
    LET u == update(st, index, title, value, new)
        p == plot(st, TRUE, selfShow)
    IN  IF u.err = "none"
        THEN [settings |-> u.settings, err |-> "none", chart |-> p.chart,
              calls |-> p.calls, renders |-> 1]
        ELSE [settings |-> u.settings, err |-> u.err, chart |-> ch,
              calls |-> <<>>, renders |-> 0]

\* Interact.update(event) as a whole: the mutation, then the re-render
\* (one call of plot) unless the mutation raised
Interact_update(st, ch, selfShow, index, title, value, new) ==
    LET u == update(st, index, title, value, new)
        p == plot(u.settings, TRUE, selfShow)
    IN  IF u.err = "none"
        THEN [settings |-> u.settings, err |-> "none", chart |-> p.chart,
              calls |-> p.calls, renders |-> 1]
        ELSE [settings |-> u.settings, err |-> u.err, chart |-> ch,
              calls |-> <<>>, renders |-> 0]

-----------------------------------------------------------------------------
(* Inputs *)

\* the values the modelled user picks in a control, per title: a part of
\* the control's options (any string for the free-text control)
Picks(title) ==
    CASE title = "column" -> {None, "W"}
      [] title = "encoding" -> {"x", "y", "text"}
      [] title = "mark" -> {"mark_point", "mark_bar"}
      [] title = "type" -> {"auto detect", "quantitative"}
      [] title = "aggregate" -> {None, "mean"}
      [] title = "scale" -> {"linear", "log"}
      [] title = "color" -> {None, "blue"}
      [] title = "text" -> {"", "Sepal.Length"}
      [] OTHER -> {PyFalse, PyTrue}

\* the options a widget offers
Options(title) ==
    CASE title = "column" -> Range(<<None>> \o _get_columns)
      [] title = "encoding" -> Range(_get_encodings)
      [] title = "mark" -> Range(_get_marks)
      [] title = "text" -> Picks("text")
      [] OTHER -> Range(ControlOptions(title))

NoStep ==
    [op |-> "none", row |-> 0, title |-> "", new |-> "", absent |-> FALSE,
     vis |-> FALSE, twice |-> FALSE, vis2 |-> FALSE, renders |-> 0]

-----------------------------------------------------------------------------
(* State machine *)

Fresh ==
    /\ pc = "new"
    /\ settings = Undefined
    /\ controller = Undefined
    /\ show = Undefined
    /\ chart = Undefined
    /\ calls = <<>>
    /\ err = "none"
    /\ last = NoStep
    /\ nevents = 0
    /\ arg = Undefined
    /\ ret = Undefined

Init ==
    /\ args \in [df_ok : BOOLEAN, ndims : 0..MaxDims, show : BOOLEAN]
    /\ Fresh

\* Interact(df, ndims, show)
Construct ==
    /\ pc = "new"
    /\ LET o == Interact__init__(args.df_ok, args.ndims, args.show)
       IN  /\ pc' = o.pc
           /\ settings' = o.settings
           /\ controller' = o.controller
           /\ show' = o.show
           /\ chart' = o.chart
           /\ calls' = o.calls
           /\ err' = o.err
    /\ last' = [NoStep EXCEPT !.op = "construct",
                              !.renders = Interact__init__(args.df_ok, args.ndims,
                                                           args.show).renders]
    /\ UNCHANGED <<args, nevents, arg, ret>>

\* the key title is missing from the settings entry of the row tagged index
KeyAbsent(st, index, title) ==
    IF index = -1 THEN title \notin DOMAIN st.mark
    ELSE title \notin DOMAIN st.encodings[index + 1]

\* update(event) runs for a widget owner with owner.value = value and
\* event['new'] = new
FireEvent(ctrl, owner, value, new, op) ==
    LET o == Interact_update(settings, chart, show, owner.row, owner.title, value, new)
    IN  /\ controller' = ctrl
        /\ settings' = o.settings
        /\ chart' = o.chart
        /\ calls' = o.calls
        /\ err' = o.err
        /\ last' = [NoStep EXCEPT !.op = op, !.row = owner.row,
                                  !.title = owner.title, !.new = new,
                                  !.absent = KeyAbsent(settings, owner.row, owner.title),
                                  !.renders = o.renders]
        /\ nevents' = nevents + 1
        /\ UNCHANGED <<args, pc, show, arg, ret>>

\* the change callback of the widget owner (whose value is already v) runs
Fire(ctrl, owner, v, op) == FireEvent(ctrl, owner, v, v, op)

Live == pc = "live" /\ nevents < MaxEvents

Rows == DOMAIN controller.children
Shelves == {r \in Rows : Len(controller.children[r].children) = 4}

\* the user picks v in a dropdown at position c of row r (the column
\* selector, the encoding selector or the mark selector)
ChangeSelector(r, c, v) ==
    LET w == controller.children[r].children[c]
    IN  /\ v \in Picks(w.title) \cap Options(w.title)
        /\ v # w.value
        /\ "disabled" \in DOMAIN w => ~w.disabled
        /\ Fire([controller EXCEPT !.children[r].children[c].value = v],
                w, v, "change")

ChangeColumn == Live /\ \E r \in Shelves : \E v \in Picks("column") : ChangeSelector(r, 1, v)

ChangeEncoding == Live /\ \E r \in Shelves : \E v \in Picks("encoding") : ChangeSelector(r, 2, v)

ChangeMark == Live /\ \E v \in Picks("mark") : ChangeSelector(Len(controller.children), 1, v)

\* the user changes control k of the visible advanced panel of row r
ChangeAdvanced ==
    /\ Live
    /\ \E r \in Rows :
         LET pan == Len(controller.children[r].children)
             panel == controller.children[r].children[pan]
         IN  /\ panel.visible
             /\ \E k \in DOMAIN panel.children :
                  LET w == panel.children[k]
                  IN  \E v \in Picks(w.title) \cap Options(w.title) :
                        /\ v # w.value
                        /\ Fire([controller EXCEPT
                                   !.children[r].children[pan].children[k].value = v],
                                w, v, "change")

\* the user clicks the options button of row r
Click ==
    /\ Live
    /\ \E r \in Rows :
         LET pan == Len(controller.children[r].children)
             button == controller.children[r].children[pan - 1]
             again == last.op = "click" /\ last.row = button.row
         IN  /\ controller' = _show_advanced(controller, button)
             /\ last' = [NoStep EXCEPT !.op = "click", !.row = button.row,
                                       !.title = button.title,
                                       !.vis = controller.children[r].children[pan].visible,
                                       !.twice = again,
                                       !.vis2 = IF again THEN last.vis ELSE FALSE]
    /\ calls' = <<>>
    /\ err' = "none"
    /\ nevents' = nevents + 1
    /\ UNCHANGED <<args, pc, settings, show, chart, arg, ret>>

Next == Construct \/ ChangeColumn \/ ChangeEncoding \/ ChangeMark
           \/ ChangeAdvanced \/ Click

Spec == Init /\ [][Next]_vars

-----------------------------------------------------------------------------
(* Direct use of the public methods Interact.update and Interact.plot *)

\* the titles a caller names in an event for row index (-1 is the mark row)
CallTitles(index) ==
    IF index = -1 THEN {"color"} ELSE {"column", "type", "bin", "aggregate"}

\* a caller invokes update with an event of its own making: owner.row =
\* index, owner.title = title, owner.value = value, event['new'] = new.
\* update reads owner.value only for the titles 'type' and 'text' (lines
\* 126 and 129), so value differs from new for 'type' only
CallUpdate ==
    /\ Live
    /\ \E index \in -1..(Len(settings.encodings) - 1) :
         \E title \in CallTitles(index) :
           \E new \in Picks(title) \cup {None} :
             \E value \in (IF title = "type" THEN Picks(title) \cup {None} ELSE {new}) :
               FireEvent(controller, [row |-> index, title |-> title], value, new, "call")

\* the settings a caller hands to plot
PlotArgs ==
    {settings, [encodings |-> <<>>, mark |-> [mark |-> "mark_bar"]]}

\* a caller invokes plot(settingsArg, show=showArg): the chart is compiled
\* from self.settings (lines 143-146 never read the argument) and displayed
\* when showArg and self.show; the call raises nothing and writes nothing
\* else
CallPlot ==
    /\ Live
    /\ \E settingsArg \in PlotArgs :
         \E showArg \in BOOLEAN :
           LET p == plot(settings, showArg, show)
           IN  /\ chart' = p.chart
               /\ calls' = p.calls
               /\ err' = "none"
               /\ last' = [NoStep EXCEPT !.op = "plot", !.renders = 1]
               /\ nevents' = nevents + 1
               /\ UNCHANGED <<args, pc, settings, controller, show, arg, ret>>

NextApi == Next \/ CallUpdate \/ CallPlot

SpecApi == Init /\ [][NextApi]_vars

-----------------------------------------------------------------------------
(* Construction alone, for every ndims up to MaxCtorDims *)

InitCtor ==
    /\ args \in [df_ok : BOOLEAN, ndims : 0..MaxCtorDims, show : BOOLEAN]
    /\ Fresh

NextCtor == Construct \/ Click

SpecCtor == InitCtor /\ [][NextCtor]_vars

\* interact_with(df, ndims, **kwargs) forwards to the constructor
interact_with(df_ok, ndims, showArg) == Interact__init__(df_ok, ndims, showArg)

-----------------------------------------------------------------------------
(* _get_plot_command on its own *)

\* the encoding entries _get_plot_command is applied to: every choice of
\* present keys and of their values ("-" marks a key left out)
Entries ==
    LET full == [encoding : {"x", "color", "text"},
                 column : {"-", "W"},
                 type : {"-", "quantitative", "auto detect"},
                 bin : {"-", PyFalse, PyTrue},
                 aggregate : {"-", "mean"},
                 zero : {"-", PyFalse, PyTrue},
                 scale : {"-", "linear", "log"},
                 text : {"-", "Sepal.Length"}]
    IN  {[k \in {x \in DOMAIN f : f[x] # "-"} |-> f[k]] : f \in full}

InitCmd ==
    /\ args = [df_ok |-> TRUE, ndims |-> 0, show |-> FALSE]
    /\ pc = "new"
    /\ settings = Undefined
    /\ controller = Undefined
    /\ show = Undefined
    /\ chart = Undefined
    /\ calls = <<>>
    /\ err = "none"
    /\ last = NoStep
    /\ nevents = 0
    /\ arg \in Entries
    /\ ret = Undefined

CallGetPlotCommand ==
    /\ ret = Undefined
    /\ ret' = _get_plot_command(arg)
    /\ UNCHANGED <<args, pc, settings, controller, show, chart, calls, err,
                   last, nevents, arg>>

NextCmd == CallGetPlotCommand

SpecCmd == InitCmd /\ [][NextCmd]_vars

-----------------------------------------------------------------------------
(* Properties *)

\* the step just taken ran update for the control titled t of an encoding row
UpdatedBy(t) ==
    /\ pc = "live"
    /\ last.op \in {"change", "call"}
    /\ last.row >= 0
    /\ last.title = t

\* the settings entry of the row the last step was about
LastEntry == settings.encodings[last.row + 1]

\* C1: after update handles a change of a row's type control to
\* 'auto detect', that row's entry has no 'type' key
C1_AutoDetectRemovesType ==
    (UpdatedBy("type") /\ last.new = "auto detect") => "type" \notin DOMAIN LastEntry

\* C2: after update handles a change of a row's text control, the entry has
\* neither 'text' nor 'column' if the new value is '', and column equal to
\* the new value otherwise
C2_TextControlBindsColumn ==
    UpdatedBy("text") =>
        IF last.new = ""
        THEN "text" \notin DOMAIN LastEntry /\ "column" \notin DOMAIN LastEntry
        ELSE "column" \in DOMAIN LastEntry /\ LastEntry["column"] = last.new

\* C3: no key of settings.mark or of an entry of settings.encodings has the
\* value None
C3_NoNoneInSettings ==
    pc = "live" =>
        /\ \A k \in DOMAIN settings.mark : settings.mark[k] # None
        /\ \A i \in DOMAIN settings.encodings :
              \A k \in DOMAIN settings.encodings[i] : settings.encodings[i][k] # None

\* C4: update for an encoding row with a title other than 'text' and the new
\* value None, when the entry lacks that key, raises nothing, leaves
\* settings as they were and re-renders
C4_RemovingAbsentKeyIsNoOp ==
    [][(/\ pc = "live"
        /\ last'.op \in {"change", "call"}
        /\ last'.row >= 0
        /\ last'.title # "text"
        /\ last'.new = None
        /\ KeyAbsent(settings, last'.row, last'.title))
       => (/\ err' = "none"
           /\ settings' = settings
           /\ chart' = plot(settings, TRUE, show).chart
           /\ calls' = plot(settings, TRUE, show).calls)]_vars

\* the tree has n shelves, tagged 0..n-1 and each showing the encoding of
\* its own settings entry, followed by the mark row, tagged -1
TreeShape(n) ==
    /\ Len(controller.children) = n + 1
    /\ Len(settings.encodings) = n
    /\ \A i \in 1..n :
          LET w == controller.children[i].children
          IN  /\ Len(w) = 4
              /\ <<w[1].title, w[2].title, w[3].title, w[4].title>>
                    = <<"column", "encoding", "button", "advanced">>
              /\ \A c \in 1..4 : w[c].row = i - 1
              /\ \A k \in DOMAIN w[4].children : w[4].children[k].row = i - 1
              /\ settings.encodings[i]["encoding"] = w[2].value
    /\ LET w == controller.children[n + 1].children
       IN  /\ Len(w) = 3
           /\ <<w[1].title, w[2].title, w[3].title>>
                 = <<"mark", "mark_button", "mark_options">>
           /\ w[1].row = -1 /\ w[2].row = -1
           /\ \A k \in DOMAIN w[3].children : w[3].children[k].row = -1

\* C5 as stated: for every ndims >= 0 construction succeeds with ndims
\* shelves, one mark row and ndims settings entries
C5_AnyDimensionCount ==
    (pc # "new" /\ args.df_ok) => (pc = "live" /\ TreeShape(args.ndims))

\* C5 amended: the same for every ndims from 0 to the number of encodings
\* (nine)
C5_UpToNineDimensions ==
    (pc # "new" /\ args.df_ok /\ args.ndims <= Len(_get_encodings))
        => (pc = "live" /\ TreeShape(args.ndims))

C5_Witness ==
    pc = "live" /\ args.ndims = Len(_get_encodings) /\ last.op = "construct"

\* the primary selector of the row tagged row is enabled and its panel hidden
Collapsed(ctrl, row) ==
    LET w == ctrl.children[PyPos(ctrl.children, row)].children
    IN  ~w[Len(w)].visible /\ ~w[Len(w) - 2].disabled

\* C6: a click on an options button leaves settings unchanged, and the
\* second of two consecutive clicks on one row whose panel was hidden leaves
\* the row's primary selector enabled and its panel hidden
C6_TwoClicksRestore ==
    [][last'.op = "click" =>
         /\ settings' = settings
         /\ (last'.twice /\ ~last'.vis2) => Collapsed(controller', last'.row)]_vars

C6_Witness ==
    /\ last.op = "click" /\ last.twice /\ ~last.vis2
    /\ last.row >= 0
    /\ "column" \in DOMAIN settings.encodings[last.row + 1]

\* C7: every entry with a column has, under its encoding name, a field
\* descriptor built from its column among the arguments of encode
C7_EveryBoundEntryEncoded ==
    pc = "live" =>
        \A i \in DOMAIN settings.encodings :
            LET e == settings.encodings[i]
            IN  "column" \in DOMAIN e =>
                  /\ e["encoding"] \in DOMAIN chart.kwargs
                  /\ chart.kwargs[e["encoding"]].cls = capitalize(e["encoding"])
                  /\ chart.kwargs[e["encoding"]].field = e["column"]

\* C8: an entry without a column puts nothing among the arguments of
\* encode: each argument is a field descriptor of an entry with a column
C8_UnboundEntryAddsNothing ==
    pc = "live" =>
        \A n \in DOMAIN chart.kwargs :
            /\ chart.kwargs[n] # NoneObj
            /\ \E i \in DOMAIN settings.encodings :
                  /\ settings.encodings[i]["encoding"] = n
                  /\ "column" \in DOMAIN settings.encodings[i]

\* a Scale descriptor as a dict of the options that are set
ScaleDict(sc) == [k \in {x \in {"type", "zero"} : sc[x] # None} |-> sc[k]]

\* C9: for an entry with a column, _get_plot_command gives the constructor
\* named by the capitalized encoding with field = column; scale and zero
\* appear only in one nested scale descriptor, which exists exactly when
\* one of them is present; the other keys are options, unchanged
C9_PlotCommandShape ==
    (ret # Undefined /\ "column" \in DOMAIN arg) =>
        LET inScale == DOMAIN arg \cap {"scale", "zero"}
            rest == DOMAIN arg \ {"encoding", "column", "scale", "zero"}
        IN  /\ ret.cls = capitalize(arg["encoding"])
            /\ ret.field = arg["column"]
            /\ DOMAIN ret.opts = rest
            /\ \A k \in rest : ret.opts[k] = arg[k]
            /\ (inScale = {}) => ret.scale = NoneObj
            /\ (inScale # {}) =>
                  /\ ret.scale.cls = "Scale"
                  /\ ScaleDict(ret.scale) =
                        [k \in {IF x = "scale" THEN "type" ELSE x : x \in inScale} |->
                           IF k = "type" THEN arg["scale"] ELSE arg["zero"]]
            /\ (arg = [encoding |-> "x", column |-> "W", scale |-> "log"]) =>
                  /\ ret.cls = "X" /\ ret.field = "W" /\ ret.opts = EmptyDict
                  /\ ScaleDict(ret.scale) = [type |-> "log"]

C9_Witness ==
    /\ ret # Undefined
    /\ {"column", "scale", "zero", "type", "bin", "aggregate", "text"} \subseteq DOMAIN arg

\* C10: construction with a dataset that is not a DataFrame raises the
\* validation error with no settings, controller or chart assigned and no
\* display call made
C10_InvalidDatasetRejected ==
    (pc # "new" /\ ~args.df_ok) =>
        /\ pc = "failed"
        /\ err = "ValueError"
        /\ settings = Undefined
        /\ controller = Undefined
        /\ show = Undefined
        /\ chart = Undefined
        /\ calls = <<>>
        /\ interact_with(args.df_ok, args.ndims, args.show).err = "ValueError"

C10_Witness == pc = "failed" /\ ~args.df_ok /\ last.op = "construct"

-----------------------------------------------------------------------------
(* _get_advanced_settings on its own: successive calls *)

InitCat ==
    /\ args = [df_ok |-> TRUE, ndims |-> 0, show |-> FALSE]
    /\ pc = "new"
    /\ settings = Undefined
    /\ controller = Undefined
    /\ show = Undefined
    /\ chart = Undefined
    /\ calls = <<>>
    /\ err = "none"
    /\ last = NoStep
    /\ nevents = 0
    /\ arg = <<>>
    /\ ret = <<>>

\* one more call; arg lists the arguments so far and ret the lists returned
CallGetAdvancedSettings ==
    /\ Len(arg) < MaxCalls
    /\ \E e \in Range(_get_encodings) \cup Range(_get_marks) :
         /\ arg' = Append(arg, e)
         /\ ret' = Append(ret, _get_advanced_settings(e))
    /\ UNCHANGED <<args, pc, settings, controller, show, chart, calls, err,
                   last, nevents>>

NextCat == CallGetAdvancedSettings

SpecCat == InitCat /\ [][NextCat]_vars

\* the catalog as the specification tabulates it
CatalogEntry(e) ==
    CASE e \in {"x", "y"} -> <<"type", "bin", "aggregate", "zero", "scale">>
      [] e \in {"color", "row", "column", "opacity", "shape", "size"}
            -> <<"type", "bin", "aggregate">>
      [] e = "text" -> <<"type", "bin", "aggregate", "text">>
      [] e \in {"mark_point", "mark_circle", "mark_line", "mark_bar", "mark_tick",
                "mark_text", "mark_square", "mark_rule", "mark_area"}
            -> <<"color", "applyColorToBackground", "shortTimeLabels">>

\* C14: every call of _get_advanced_settings returns the tabulated list of
\* its argument, whatever calls came before; the mark catalog has nine
\* marks, mark_point first, which is the default settings.mark.mark
C14_CatalogExact ==
    /\ \A k \in DOMAIN ret : ret[k] = CatalogEntry(arg[k])
    /\ \A j, k \in DOMAIN ret : arg[j] = arg[k] => ret[j] = ret[k]
    /\ _get_marks = <<"mark_point", "mark_circle", "mark_line", "mark_bar",
                      "mark_tick", "mark_text", "mark_square", "mark_rule",
                      "mark_area">>
    /\ Interact__init__(TRUE, 0, FALSE).settings.mark["mark"] = _get_marks[1]

C14_Witness ==
    /\ Len(ret) = 2 /\ arg[1] = "x" /\ arg[2] = "text"
    /\ ret[1] # ret[2]

\* C11: a change event handled by update is followed within the same step
\* by exactly one re-render, and after construction and after every event
\* the stored chart is the compilation of the current settings
C11_ChartFollowsSettings ==
    pc = "live" =>
        /\ chart = plot(settings, TRUE, show).chart
        /\ last.op \in {"construct", "change"} => (err = "none" /\ last.renders = 1)

C11_Witness ==
    /\ pc = "live" /\ last.op = "change" /\ nevents >= 2
    /\ \E i \in DOMAIN settings.encodings : "column" \in DOMAIN settings.encodings[i]

\* C12: with show disabled no step makes a clear-output or display call;
\* with show enabled a re-render clears the output and then displays the
\* chart
C12_DisplayOnlyIfShown ==
    /\ (pc # "new" /\ ~args.show) => calls = <<>>
    /\ (pc = "live" /\ show /\ last.renders = 1) =>
          /\ Len(calls) >= 2
          /\ SubSeq(calls, Len(calls) - 1, Len(calls)) = <<"clear_output", "display_chart">>
          /\ \A k \in 1..(Len(calls) - 2) : calls[k] = "display_controller"
    /\ (pc = "live" /\ last.renders = 0) => calls = <<>>

C12_Witness ==
    pc = "live" /\ ~show /\ last.op = "change" /\ nevents >= 2

\* C13: a change event from the mark row sets settings.mark[title] to the
\* new value and leaves settings.encodings as it was; one from encoding row
\* r leaves settings.mark and every other entry as they were
C13_UpdateFrame ==
    [][(pc = "live" /\ last'.op = "change") =>
         IF last'.row = -1
         THEN /\ settings'.mark = DictSet(settings.mark, last'.title, last'.new)
              /\ settings'.encodings = settings.encodings
         ELSE /\ settings'.mark = settings.mark
              /\ Len(settings'.encodings) = Len(settings.encodings)
              /\ \A j \in DOMAIN settings.encodings :
                    j # last'.row + 1 => settings'.encodings[j] = settings.encodings[j]]_vars

C13_Witness ==
    /\ pc = "live" /\ last.op = "change" /\ last.row = 0
    /\ Len(settings.encodings) = 2
    /\ "column" \in DOMAIN settings.encodings[2]
    /\ "color" \in DOMAIN settings.mark

\* the controller with the value of the control titled title, in the row
\* tagged row, set to v
SetValue(ctrl, row, title, v) ==
    LET r == PyPos(ctrl.children, row)
        w == ctrl.children[r].children
        pan == Len(w)
    IN  IF \E c \in 1..(pan - 2) : w[c].title = title
        THEN [ctrl EXCEPT !.children[r].children[
                             CHOOSE c \in 1..(pan - 2) : w[c].title = title].value = v]
        ELSE [ctrl EXCEPT !.children[r].children[pan].children[
                             CHOOSE k \in DOMAIN w[pan].children :
                                w[pan].children[k].title = title].value = v]

\* C15: handling a change event leaves every control as the user's change
\* left it, and handling an options click leaves the value of every selector
\* and every other row as they were: no handler assigns a control's value,
\* so no handler fires a further change event
C15_HandlersAssignNoValue ==
    [][/\ (pc = "live" /\ last'.op = "change") =>
             controller' = SetValue(controller, last'.row, last'.title, last'.new)
       /\ (pc = "live" /\ last'.op = "click") =>
             /\ DOMAIN controller'.children = DOMAIN controller.children
             /\ \A r \in DOMAIN controller.children :
                   /\ r # PyPos(controller.children, last'.row) =>
                         controller'.children[r] = controller.children[r]
                   /\ \A c \in 1..(Len(controller.children[r].children) - 2) :
                         controller'.children[r].children[c].value
                            = controller.children[r].children[c].value]_vars

C15_Witness ==
    /\ pc = "live" /\ last.op = "click" /\ last.row = 0
    /\ controller.children[1].children[2].value = "text"
    /\ controller.children[1].children[1].value = "W"

\* the primary selector and the advanced panel of row r
Selector(r) == controller.children[r].children[Len(controller.children[r].children) - 2]
Panel(r) == controller.children[r].children[Len(controller.children[r].children)]

\* C16: in every state each row's primary selector is disabled exactly when
\* the row's advanced panel is visible, and after construction the selector
\* is enabled and the panel hidden
C16_DisabledIffVisible ==
    pc = "live" =>
        /\ \A r \in Rows : Selector(r).disabled = Panel(r).visible
        /\ last.op = "construct" =>
              \A r \in Rows : ~Selector(r).disabled /\ ~Panel(r).visible

C16_Witness ==
    /\ pc = "live" /\ last.op = "change" /\ Len(controller.children) = 3
    /\ Panel(1).visible /\ Selector(1).disabled
    /\ ~Panel(2).visible /\ ~Selector(2).disabled

\* C17: the controls of a visible panel have, in order, the titles the
\* catalog gives for the value selected in the row's primary selector, and
\* each carries the row's tag
C17_PanelMatchesSelection ==
    pc = "live" =>
        \A r \in Rows :
            Panel(r).visible =>
                /\ [k \in DOMAIN Panel(r).children |-> Panel(r).children[k].title]
                      = _get_advanced_settings(Selector(r).value)
                /\ \A k \in DOMAIN Panel(r).children :
                      Panel(r).children[k].row = Selector(r).row

C17_Witness ==
    /\ pc = "live" /\ Len(controller.children) >= 2
    /\ Panel(1).visible /\ Selector(1).value = "text"
    /\ Len(Panel(1).children) = 4

\* C18: settings.mark.mark is present and is the mark selector's value, a
\* mark of the catalog; each entry's encoding is present and is its row's
\* encoding selector's value, one of the nine encodings; after construction
\* entry i holds the i-th encoding and the mark is mark_point
C18_SettingsMirrorSelectors ==
    pc = "live" =>
        LET n == Len(settings.encodings)
        IN  /\ Len(controller.children) = n + 1
            /\ "mark" \in DOMAIN settings.mark
            /\ settings.mark["mark"] = Selector(n + 1).value
            /\ settings.mark["mark"] \in Range(_get_marks)
            /\ \A i \in 1..n :
                  /\ "encoding" \in DOMAIN settings.encodings[i]
                  /\ settings.encodings[i]["encoding"] = Selector(i).value
                  /\ settings.encodings[i]["encoding"] \in
                        {"x", "y", "color", "text", "row", "column", "opacity",
                         "shape", "size"}
            /\ last.op = "construct" =>
                  /\ settings.mark["mark"] = "mark_point"
                  /\ \A i \in 1..n : settings.encodings[i]["encoding"] = _get_encodings[i]

C18_Witness ==
    /\ pc = "live" /\ Len(settings.encodings) = 2
    /\ settings.encodings[1]["encoding"] = "text"
    /\ settings.encodings[2]["encoding"] = "x"
    /\ settings.mark["mark"] = "mark_bar"

\* C19: no event the form generates reaches the removal at line 135 with
\* the key missing: update never raises KeyError
C19_FormNeverRemovesAbsentKey ==
    pc = "live" =>
        /\ err # "KeyError"
        /\ ~(/\ last.op = "change" /\ last.row >= 0 /\ last.title # "text"
             /\ last.new = None /\ last.absent)

C19_Witness ==
    /\ pc = "live" /\ last.op = "change" /\ last.row >= 0
    /\ last.title = "aggregate" /\ last.new = None /\ ~last.absent
    /\ err = "none"

\* the settings entry of row r of the tree
EntryOf(r) ==
    IF r = Len(controller.children) THEN settings.mark ELSE settings.encodings[r]

\* C20: each control of a visible panel whose title is a key of the row's
\* settings entry shows the value stored under that key
C20_PanelShowsSettings ==
    pc = "live" =>
        \A r \in Rows :
            Panel(r).visible =>
                \A k \in DOMAIN Panel(r).children :
                    LET w == Panel(r).children[k]
                    IN  w.title \in DOMAIN EntryOf(r) => w.value = EntryOf(r)[w.title]

====
